---- MODULE Spec2Model ----
(***************************************************************************)
(* hpm: a host power-management CLI.  The model covers                     *)
(*   - src/src/process.rs : Process (validate, exec), Error and its        *)
(*     Display rendering;                                                  *)
(*   - src/src/main.rs    : main, run, interactive and the dispatcher      *)
(*     kill / restart / logout (src/src/cli.rs holds the same dispatcher). *)
(* The host (search path, environment, the child's behaviour, stdin and    *)
(* stdout) is the nondeterministic environment of the program.             *)
(***************************************************************************)
EXTENDS Integers, Sequences, FiniteSets, TLC

(***************************************************************************)
(* Bounds of the model.                                                    *)
(***************************************************************************)
\* longest byte sequence a child writes to one of its streams
MaxOut == 1
\* exec calls a library client makes on one Process
MaxCalls == 2
\* longest line (without its newline) typed at the interactive prompt
MaxAnswerLen == 3

(***************************************************************************)
(* Values.                                                                 *)
(***************************************************************************)
\* Option<T>: Some(x) is <<x>>, None is <<>>
Some(x) == <<x>>

None == <<>>

Unwrap(o) == o[1]

\* executable names the host may install on its search path
Names == {"systemctl", "loginctl", "ls"}

\* bytes a child may write: 'a', and 0xC3, the first byte of a two-byte
\* UTF-8 sequence, which is invalid UTF-8 unless a continuation byte follows
Bytes == {97, 195}

RECURSIVE SeqsUpTo(_, _)
SeqsUpTo(S, n) ==
    IF n = 0 THEN {<<>>}
    ELSE LET shorter == SeqsUpTo(S, n - 1)
         IN  shorter \cup {Append(s, x) : s \in {t \in shorter : Len(t) = n - 1}, x \in S}

ByteSeqs == SeqsUpTo(Bytes, MaxOut)

\* ExitStatus::code() is an Option<i32>: None when a signal ended the child.
\* Unix wait statuses carry 0..255; other hosts report a full 32-bit code.
ExitCodes == {0, 1, 256}

ChildOutputs == [code : {Some(c) : c \in ExitCodes} \cup {None}, stdout : ByteSeqs, stderr : ByteSeqs]

\* io::Error kinds of a failed spawn, other than the executable being absent
SpawnErrors == {"PermissionDenied", "WouldBlock"}

\* io::Error kinds of a failed read of stdin or write to stdout
IoErrors == {"BrokenPipe"}

\* the value of $USER
UserValues == {"alice"}
EnvUser == UserValues \cup {"NotPresent", "NotUnicode"}

(***************************************************************************)
(* std::process::Command, as far as the program uses it.                   *)
(***************************************************************************)
CommandNew(program) == [program |-> program, args |-> <<>>]

CommandArg(c, a) == [c EXCEPT !.args = Append(@, a)]

(***************************************************************************)
(* process.rs: Process                                                     *)
(***************************************************************************)
ProcessNew(c) == c

get_process_name(p) == p.program

\* which::which(name): a lookup of name on the host's search path
which(name, searchPath) == name \in searchPath

validate(p, searchPath) ==
    IF which(get_process_name(p), searchPath)
    THEN [kind |-> "Ok"]
    ELSE [kind |-> "BinaryDoesNotExist", binary |-> get_process_name(p)]

\* `as u8` on an i32: the low eight bits
AsU8(i) == i % 256

\* ExitStatus::success(): the child exited, with code 0
StatusSuccess(out) == out.code = Some(0)

\* Interpret with a child that wrote to standard error taken as failed
InterpretStderrIsFailure(out) ==
    IF out.code = None THEN [kind |-> "Interrupted"]
    ELSE LET ecode == AsU8(Unwrap(out.code))
         IN  IF StatusSuccess(out) /\ out.stderr = <<>>
             THEN [kind |-> "Success", stdout |-> out.stdout]
             ELSE [kind |-> "Exec", code |-> ecode, stderr |-> out.stderr]

\* Interpret with code().unwrap_or(0) in place of ok_or(Error::Interrupted)?
InterpretUnwrapOrZero(out) ==
    LET ecode == IF out.code = None THEN 0 ELSE AsU8(Unwrap(out.code))
    IN  IF StatusSuccess(out)
        THEN [kind |-> "Success", stdout |-> out.stdout]
        ELSE [kind |-> "Exec", code |-> ecode, stderr |-> out.stderr]

\* exec, lines 138-144: the interpretation of a finished child
Interpret(out) ==
    IF out.code = None THEN [kind |-> "Interrupted"]
    ELSE LET ecode == AsU8(Unwrap(out.code))
         IN  IF StatusSuccess(out)
             THEN [kind |-> "Success", stdout |-> out.stdout]
             ELSE [kind |-> "Exec", code |-> ecode, stderr |-> out.stderr]

(***************************************************************************)
(* process.rs: impl Display for Error                                      *)
(***************************************************************************)
\* String::from_utf8 accepts exactly the well-formed UTF-8 byte sequences
IsCont(b) == b >= 128 /\ b <= 191

RECURSIVE IsValidUtf8(_)
IsValidUtf8(bs) ==
    IF bs = <<>> THEN TRUE
    ELSE LET b == Head(bs)
             n == Len(bs)
         IN  IF b <= 127 THEN IsValidUtf8(Tail(bs))
             ELSE IF b >= 194 /\ b <= 223
                  THEN n >= 2 /\ IsCont(bs[2]) /\ IsValidUtf8(SubSeq(bs, 3, n))
             ELSE IF b >= 224 /\ b <= 239
                  THEN /\ n >= 3
                       /\ IsCont(bs[2])
                       /\ IsCont(bs[3])
                       /\ (b = 224 => bs[2] >= 160)
                       /\ (b = 237 => bs[2] <= 159)
                       /\ IsValidUtf8(SubSeq(bs, 4, n))
             ELSE IF b >= 240 /\ b <= 244
                  THEN /\ n >= 4
                       /\ IsCont(bs[2])
                       /\ IsCont(bs[3])
                       /\ IsCont(bs[4])
                       /\ (b = 240 => bs[2] >= 144)
                       /\ (b = 244 => bs[2] <= 143)
                       /\ IsValidUtf8(SubSeq(bs, 5, n))
             ELSE FALSE

\* {:?} of an OsString made of plain characters: the name in double quotes
DebugFmt(name) == "\"" \o name \o "\""

\* A rendered message: literal text followed by the bytes of a decoded child
\* stream; panic is TRUE when the formatting path panicked instead.
Rendered(lit, bytes) == [panic |-> FALSE, lit |-> lit, bytes |-> bytes]

Panicked == [panic |-> TRUE, lit |-> "", bytes |-> <<>>]

Display(e) ==
    CASE e.kind = "BinaryDoesNotExist" ->
            Rendered("the binary does not exist: " \o DebugFmt(e.binary), <<>>)
      [] e.kind = "FailedToExecProcess" ->
            Rendered("failed to execute the binary " \o DebugFmt(e.binary) \o ": " \o e.err, <<>>)
      [] e.kind = "Exec" ->
            IF IsValidUtf8(e.stderr) THEN Rendered("", e.stderr) ELSE Panicked
      [] e.kind = "Interrupted" ->
            Rendered("interrupted by the host", <<>>)

(***************************************************************************)
(* main.rs: impl Display for Error (the CLI's own errors)                  *)
(***************************************************************************)
CliDisplay(e) ==
    CASE e.kind = "FailedToWriteStdout" -> Rendered("failed to write to stdout: " \o e.err, <<>>)
      [] e.kind = "FailedToReadStdin" -> Rendered("failed to read stdin: " \o e.err, <<>>)
      [] e.kind = "InvalidUserAnswer" -> Rendered("the given command does not exist", <<>>)

(***************************************************************************)
(* main.rs: interactive -- the text of the answer                          *)
(***************************************************************************)
\* characters of a typed line; read_line keeps the newline that ends it
LineChars == {"0", "1", "2", "9", "+", " "}

Lines == LET bodies == SeqsUpTo(LineChars, MaxAnswerLen)
         IN  bodies \cup {Append(b, "\n") : b \in bodies}

IsWhitespace(c) == c \in {" ", "\n", "\t", "\r"}

RECURSIVE TrimStart(_)
TrimStart(s) ==
    IF s # <<>> /\ IsWhitespace(Head(s)) THEN TrimStart(Tail(s)) ELSE s

RECURSIVE TrimEnd(_)
TrimEnd(s) ==
    IF s # <<>> /\ IsWhitespace(s[Len(s)]) THEN TrimEnd(SubSeq(s, 1, Len(s) - 1)) ELSE s

\* str::trim
Trim(s) == TrimEnd(TrimStart(s))

DigitChars == {"0", "1", "2", "3", "4", "5", "6", "7", "8", "9"}

DigitVal(c) ==
    CASE c = "0" -> 0 [] c = "1" -> 1 [] c = "2" -> 2 [] c = "3" -> 3 [] c = "4" -> 4
      [] c = "5" -> 5 [] c = "6" -> 6 [] c = "7" -> 7 [] c = "8" -> 8 [] c = "9" -> 9

U8Max == 255

\* the digits of an unsigned decimal, accumulated left to right; None on a
\* character that is no digit or on a value above u8::MAX
RECURSIVE ParseDigits(_, _)
ParseDigits(s, acc) ==
    IF s = <<>> THEN Some(acc)
    ELSE IF Head(s) \notin DigitChars THEN None
    ELSE LET v == acc * 10 + DigitVal(Head(s))
         IN  IF v > U8Max THEN None ELSE ParseDigits(Tail(s), v)

\* str::parse::<u8>: an optional leading '+', then one or more digits
ParseU8(s) ==
    IF s = <<>> THEN None
    ELSE LET digits == IF Head(s) = "+" THEN Tail(s) ELSE s
         IN  IF digits = <<>> THEN None ELSE ParseDigits(digits, 0)

\* cmd_map of interactive: the index of each command in cmds
CmdMap == (0 :> "Kill") @@ (1 :> "Restart") @@ (2 :> "Logout")

\* SelectCommand without the trim of the answer
SelectCommandUntrimmed(answer) ==
    LET cmd_key == ParseU8(answer)
    IN  IF cmd_key = None THEN [kind |-> "InvalidUserAnswer"]
        ELSE IF Unwrap(cmd_key) \in DOMAIN CmdMap
             THEN [kind |-> "Ok", cmd |-> CmdMap[Unwrap(cmd_key)]]
             ELSE [kind |-> "InvalidUserAnswer"]

\* lines 164-170 of interactive: the command an answer selects, or the error
SelectCommand(answer) ==
    LET cmd_key == ParseU8(Trim(answer))
    IN  IF cmd_key = None THEN [kind |-> "InvalidUserAnswer"]
        ELSE IF Unwrap(cmd_key) \in DOMAIN CmdMap
             THEN [kind |-> "Ok", cmd |-> CmdMap[Unwrap(cmd_key)]]
             ELSE [kind |-> "InvalidUserAnswer"]

(***************************************************************************)
(* main.rs: the dispatcher                                                 *)
(***************************************************************************)
Subcommands == {"Kill", "Restart", "Logout"}

\* Args after a successful parse; args_conflicts_with_subcommands excludes
\* the interactive flag together with a subcommand
ArgsValues ==
    {[interactive |-> i, command |-> c] :
        i \in BOOLEAN, c \in {Some(x) : x \in Subcommands} \cup {None}}
    \ {[interactive |-> TRUE, command |-> Some(x)] : x \in Subcommands}

\* kill with the argument of restart
killReboots == CommandArg(CommandNew("systemctl"), "reboot")

kill == CommandArg(CommandNew("systemctl"), "poweroff")

restart == CommandArg(CommandNew("systemctl"), "reboot")

\* logout, lines 136-137: the Command as it stands when $USER is read
logoutBeforeUser == CommandArg(CommandNew("loginctl"), "terminate-user")

\* std::env::var("USER"): Ok for a value that is present and valid Unicode
EnvVarOk(v) == v \in UserValues

logout(user) == CommandArg(logoutBeforeUser, user)

\* exit status of a Rust program whose main thread panicked
PanicExit == 101

\* main, lines 16-23: the exit status for a process::Error
ExitCodeOfProcessError(e) ==
    CASE e.kind = "BinaryDoesNotExist" -> 1
      [] e.kind = "FailedToExecProcess" -> 1
      [] e.kind = "Exec" -> e.code
      [] e.kind = "Interrupted" -> 130

\* main, lines 25-31: the exit status for the CLI's own Error
ExitCodeOfCliError(e) ==
    CASE e.kind = "FailedToWriteStdout" -> 1
      [] e.kind = "FailedToReadStdin" -> 1
      [] e.kind = "InvalidUserAnswer" -> 1

\* eprintln!("{PROGRAM}: {hpm_err}")
Eprintln(r) == IF r.panic THEN r ELSE [r EXCEPT !.lit = "hpm: " \o @]

\* commands a library client wraps in a Process (those of the crate's tests)
ClientCommands ==
    { CommandNew("ls"),
      CommandArg(CommandNew("ls"), "this-file-does-not-exist"),
      CommandNew("this-binary-does-not-exist") }

(***************************************************************************)
(* State                                                                   *)
(***************************************************************************)
VARIABLES
    path,           \* host: the names the search path resolves right now
    userEnv,        \* host: $USER in the program's environment
    mode,           \* "main": the hpm binary; "lib": a client of hpm::Process
    pc,             \* where the program's single thread stands
    args,           \* main: the parsed Args
    answer_buf,     \* interactive: the line read, Some(line) until run goes on
    selected,       \* run: the Command (subcommand) chosen, Some(c) or None
    cmd,            \* the std::process::Command most recently built
    process,        \* the Process, Some(Command) or None
    validateResult, \* lib: what a direct call of validate returned
    calls,          \* number of exec calls started
    result,         \* what the last finished exec call returned
    child,          \* Output of the most recent child, Some(..) or None
    spawned,        \* host: the children created, as <<exec call, Command>>
    stdoutSink,     \* main: what run wrote to its standard output
    errText,        \* main: what main rendered to standard error
    exitCode        \* main: the exit status, Some(n) once the program ended

vars == <<path, userEnv, mode, pc, args, answer_buf, selected, cmd, process,
          validateResult, calls, result, child, spawned, stdoutSink, errText,
          exitCode>>

hostVars == <<path, userEnv>>

mainVars == <<args, answer_buf, selected, stdoutSink, errText, exitCode>>

execVars == <<calls, result, child, spawned>>

NoArgs == [interactive |-> FALSE, command |-> None]

NoResult == [kind |-> "NoResult"]

Init ==
    /\ path \in SUBSET Names
    /\ mode \in {"main", "lib"}
    /\ userEnv \in (IF mode = "main" THEN EnvUser ELSE {"NotPresent"})
    /\ args \in (IF mode = "main" THEN ArgsValues ELSE {NoArgs})
    /\ pc = "start"
    /\ answer_buf = None
    /\ selected = None
    /\ cmd = None
    /\ process = None
    /\ validateResult = NoResult
    /\ calls = 0
    /\ result = NoResult
    /\ child = None
    /\ spawned = <<>>
    /\ stdoutSink = <<>>
    /\ errText = None
    /\ exitCode = None

(***************************************************************************)
(* The host: executables appear on and vanish from the search path at any  *)
(* moment, also between two steps of the program.                          *)
(***************************************************************************)
HostInstall ==
    /\ pc # "exited"
    /\ \E n \in Names \ path : path' = path \cup {n}
    /\ UNCHANGED <<userEnv, mode, pc, cmd, process, validateResult>>
    /\ UNCHANGED mainVars
    /\ UNCHANGED execVars

HostRemove ==
    /\ pc # "exited"
    /\ \E n \in path : path' = path \ {n}
    /\ UNCHANGED <<userEnv, mode, pc, cmd, process, validateResult>>
    /\ UNCHANGED mainVars
    /\ UNCHANGED execVars

(***************************************************************************)
(* main.rs: main and run.  The program ends in main, which renders the     *)
(* error of run to standard error and picks the exit status.               *)
(***************************************************************************)
\* main, lines 12 and 25-31, for Ok and for the CLI's own errors
MainReturns(runResult) ==
    IF runResult.kind = "Ok"
    THEN errText' = errText /\ exitCode' = Some(0)
    ELSE /\ errText' = Some(Eprintln(CliDisplay(runResult)))
         /\ exitCode' = Some(ExitCodeOfCliError(runResult))

\* run, lines 99-105: neither the flag nor a subcommand
RunNoCommand ==
    /\ mode = "main" /\ pc = "start"
    /\ ~args.interactive /\ args.command = None
    /\ MainReturns([kind |-> "Ok"])
    /\ pc' = "exited"
    /\ UNCHANGED <<args, answer_buf, selected, stdoutSink>>
    /\ UNCHANGED <<mode, cmd, process, validateResult>>
    /\ UNCHANGED hostVars
    /\ UNCHANGED execVars

\* run, lines 101-102: a subcommand on the command line
RunSubcommand ==
    /\ mode = "main" /\ pc = "start"
    /\ ~args.interactive /\ args.command # None
    /\ selected' = args.command
    /\ pc' = "selected"
    /\ UNCHANGED <<args, answer_buf, stdoutSink, errText, exitCode>>
    /\ UNCHANGED <<mode, cmd, process, validateResult>>
    /\ UNCHANGED hostVars
    /\ UNCHANGED execVars

\* interactive, lines 146-162: the prompt, then one line from standard input
InteractiveRead ==
    /\ mode = "main" /\ pc = "start"
    /\ args.interactive
    /\ \E line \in Lines : answer_buf' = Some(line)
    /\ pc' = "interactive"
    /\ UNCHANGED <<args, selected, stdoutSink, errText, exitCode>>
    /\ UNCHANGED <<mode, cmd, process, validateResult>>
    /\ UNCHANGED hostVars
    /\ UNCHANGED execVars

\* interactive, lines 160-162: read_line fails
InteractiveReadFails ==
    /\ mode = "main" /\ pc = "start"
    /\ args.interactive
    /\ \E err \in IoErrors : MainReturns([kind |-> "FailedToReadStdin", err |-> err])
    /\ pc' = "exited"
    /\ UNCHANGED <<args, answer_buf, selected, stdoutSink>>
    /\ UNCHANGED <<mode, cmd, process, validateResult>>
    /\ UNCHANGED hostVars
    /\ UNCHANGED execVars

\* interactive, lines 164-170, and its return into run (line 100); the line
\* read stays on record until the dispatcher (line 107) takes over
InteractiveSelect ==
    /\ mode = "main" /\ pc = "interactive"
    /\ LET sel == SelectCommand(Unwrap(answer_buf))
       IN  IF sel.kind = "Ok"
           THEN /\ selected' = Some(sel.cmd)
                /\ pc' = "selected"
                /\ UNCHANGED <<errText, exitCode>>
           ELSE /\ MainReturns(sel)
                /\ pc' = "exited"
                /\ UNCHANGED selected
    /\ UNCHANGED <<args, answer_buf, stdoutSink>>
    /\ UNCHANGED <<mode, cmd, process, validateResult>>
    /\ UNCHANGED hostVars
    /\ UNCHANGED execVars

\* run, line 108, and kill
Kill ==
    /\ mode = "main" /\ pc = "selected"
    /\ selected = Some("Kill")
    /\ cmd' = Some(kill)
    /\ process' = Some(ProcessNew(kill))
    /\ pc' = "ready"
    /\ answer_buf' = None
    /\ UNCHANGED <<args, selected, stdoutSink, errText, exitCode>>
    /\ UNCHANGED <<mode, validateResult>>
    /\ UNCHANGED hostVars
    /\ UNCHANGED execVars

\* run, line 109, and restart
Restart ==
    /\ mode = "main" /\ pc = "selected"
    /\ selected = Some("Restart")
    /\ cmd' = Some(restart)
    /\ process' = Some(ProcessNew(restart))
    /\ pc' = "ready"
    /\ answer_buf' = None
    /\ UNCHANGED <<args, selected, stdoutSink, errText, exitCode>>
    /\ UNCHANGED <<mode, validateResult>>
    /\ UNCHANGED hostVars
    /\ UNCHANGED execVars

\* run, line 110, and logout: the Command exists before $USER is read, and
\* expect panics when the variable is absent or not Unicode
Logout ==
    /\ mode = "main" /\ pc = "selected"
    /\ selected = Some("Logout")
    /\ IF EnvVarOk(userEnv)
       THEN /\ cmd' = Some(logout(userEnv))
            /\ process' = Some(ProcessNew(logout(userEnv)))
            /\ pc' = "ready"
            /\ UNCHANGED exitCode
       ELSE /\ cmd' = Some(logoutBeforeUser)
            /\ UNCHANGED process
            /\ exitCode' = Some(PanicExit)
            /\ pc' = "exited"
    /\ answer_buf' = None
    /\ UNCHANGED <<args, selected, stdoutSink, errText>>
    /\ UNCHANGED <<mode, validateResult>>
    /\ UNCHANGED hostVars
    /\ UNCHANGED execVars

(***************************************************************************)
(* process.rs: Process::exec.  The lookup of validate and the spawn of     *)
(* Command::output are two separate requests to the host, so the host may  *)
(* change between them; everything after the child ended is local.         *)
(***************************************************************************)
Calling == pc = "ready" /\ process # None

\* ExecValidate with the result of validate dropped instead of returned
ExecValidateUnchecked ==
    /\ Calling
    /\ calls' = calls + 1
    /\ pc' = "validated"
    /\ UNCHANGED <<result, child, spawned>>
    /\ UNCHANGED <<mode, cmd, process, validateResult>>
    /\ UNCHANGED mainVars
    /\ UNCHANGED hostVars

\* exec, line 131: self.validate()?
ExecValidate ==
    /\ Calling
    /\ calls' = calls + 1
    /\ LET v == validate(Unwrap(process), path)
       IN  IF v.kind = "Ok"
           THEN pc' = "validated" /\ UNCHANGED result
           ELSE pc' = "returned" /\ result' = v
    /\ UNCHANGED <<child, spawned>>
    /\ UNCHANGED <<mode, cmd, process, validateResult>>
    /\ UNCHANGED mainVars
    /\ UNCHANGED hostVars

\* io::Error kinds Command::output can fail with right now: NotFound when
\* the executable is not on the search path at the moment of the spawn
SpawnFailures(p, searchPath) ==
    SpawnErrors \cup (IF which(get_process_name(p), searchPath) THEN {} ELSE {"NotFound"})

\* exec, lines 133-136: output() fails, no child exists
ExecSpawnFails ==
    /\ pc = "validated"
    /\ \E err \in SpawnFailures(Unwrap(process), path) :
          result' = [kind |-> "FailedToExecProcess",
                     binary |-> get_process_name(Unwrap(process)), err |-> err]
    /\ pc' = "returned"
    /\ UNCHANGED <<calls, child, spawned>>
    /\ UNCHANGED <<mode, cmd, process, validateResult>>
    /\ UNCHANGED mainVars
    /\ UNCHANGED hostVars

\* ExecOutput that runs the command a second time when the first child failed
ExecOutputRetries ==
    /\ pc = "validated"
    /\ which(get_process_name(Unwrap(process)), path)
    /\ \E first \in ChildOutputs, out \in ChildOutputs :
          IF StatusSuccess(first)
          THEN /\ spawned' = Append(spawned, <<calls, Unwrap(process)>>)
               /\ child' = Some(first)
               /\ result' = Interpret(first)
          ELSE /\ spawned' = Append(Append(spawned, <<calls, Unwrap(process)>>),
                                    <<calls, Unwrap(process)>>)
               /\ child' = Some(out)
               /\ result' = Interpret(out)
    /\ pc' = "returned"
    /\ UNCHANGED calls
    /\ UNCHANGED <<mode, cmd, validateResult, process>>
    /\ UNCHANGED mainVars
    /\ UNCHANGED hostVars

\* ExecOutput that leaves a Command without its arguments behind
ExecOutputDropsArgs ==
    /\ pc = "validated"
    /\ which(get_process_name(Unwrap(process)), path)
    /\ spawned' = Append(spawned, <<calls, Unwrap(process)>>)
    /\ \E out \in ChildOutputs :
          /\ child' = Some(out)
          /\ result' = Interpret(out)
    /\ process' = Some(CommandNew(get_process_name(Unwrap(process))))
    /\ pc' = "returned"
    /\ UNCHANGED calls
    /\ UNCHANGED <<mode, cmd, validateResult>>
    /\ UNCHANGED mainVars
    /\ UNCHANGED hostVars

\* exec, lines 133-144: output() spawns the child, collects its streams
\* until it ends, and the outcome is interpreted
ExecOutput ==
    /\ pc = "validated"
    /\ which(get_process_name(Unwrap(process)), path)
    /\ spawned' = Append(spawned, <<calls, Unwrap(process)>>)
    /\ \E out \in ChildOutputs :
          /\ child' = Some(out)
          /\ result' = Interpret(out)
    /\ pc' = "returned"
    /\ UNCHANGED calls
    /\ UNCHANGED <<mode, cmd, process, validateResult>>
    /\ UNCHANGED mainVars
    /\ UNCHANGED hostVars

(***************************************************************************)
(* main.rs: the rest of run after exec, and main                           *)
(***************************************************************************)
\* run, lines 115-119: the child's stdout goes to the program's stdout
RunWriteStdout ==
    /\ mode = "main" /\ pc = "returned"
    /\ result.kind = "Success"
    /\ stdoutSink' = result.stdout
    /\ MainReturns([kind |-> "Ok"])
    /\ pc' = "exited"
    /\ UNCHANGED <<args, answer_buf, selected>>
    /\ UNCHANGED <<mode, cmd, process, validateResult>>
    /\ UNCHANGED hostVars
    /\ UNCHANGED execVars

\* run, lines 115-117: write_all fails
RunWriteStdoutFails ==
    /\ mode = "main" /\ pc = "returned"
    /\ result.kind = "Success"
    /\ \E err \in IoErrors : MainReturns([kind |-> "FailedToWriteStdout", err |-> err])
    /\ pc' = "exited"
    /\ UNCHANGED <<args, answer_buf, selected, stdoutSink>>
    /\ UNCHANGED <<mode, cmd, process, validateResult>>
    /\ UNCHANGED hostVars
    /\ UNCHANGED execVars

\* run, line 113 (the ? on exec), and main, lines 13-23: the message is
\* formatted first; a panic while formatting ends the program there
MainProcessError ==
    /\ mode = "main" /\ pc = "returned"
    /\ result.kind # "Success"
    /\ LET text == Eprintln(Display(result))
       IN  /\ errText' = Some(text)
           /\ exitCode' = IF text.panic
                          THEN Some(PanicExit)
                          ELSE Some(ExitCodeOfProcessError(result))
    /\ pc' = "exited"
    /\ UNCHANGED <<args, answer_buf, selected, stdoutSink>>
    /\ UNCHANGED <<mode, cmd, process, validateResult>>
    /\ UNCHANGED hostVars
    /\ UNCHANGED execVars

(***************************************************************************)
(* A client of the library (the shape of the tests of process.rs): it      *)
(* wraps a Command, may call validate, and calls exec repeatedly.          *)
(***************************************************************************)
ClientNew ==
    /\ mode = "lib" /\ pc = "start"
    /\ \E c \in ClientCommands :
          /\ cmd' = Some(c)
          /\ process' = Some(ProcessNew(c))
    /\ pc' = "ready"
    /\ UNCHANGED <<mode, validateResult>>
    /\ UNCHANGED mainVars
    /\ UNCHANGED hostVars
    /\ UNCHANGED execVars

ClientValidate ==
    /\ mode = "lib" /\ Calling
    /\ validateResult' = validate(Unwrap(process), path)
    /\ validateResult' # validateResult
    /\ UNCHANGED <<mode, pc, cmd, process>>
    /\ UNCHANGED mainVars
    /\ UNCHANGED hostVars
    /\ UNCHANGED execVars

ClientExecAgain ==
    /\ mode = "lib" /\ pc = "returned"
    /\ calls < MaxCalls
    /\ pc' = "ready"
    /\ UNCHANGED <<mode, cmd, process, validateResult>>
    /\ UNCHANGED mainVars
    /\ UNCHANGED hostVars
    /\ UNCHANGED execVars

Next ==
    \/ HostInstall
    \/ HostRemove
    \/ RunNoCommand
    \/ RunSubcommand
    \/ InteractiveRead
    \/ InteractiveReadFails
    \/ InteractiveSelect
    \/ Kill
    \/ Restart
    \/ Logout
    \/ ExecValidate
    \/ ExecSpawnFails
    \/ ExecOutput
    \/ RunWriteStdout
    \/ RunWriteStdoutFails
    \/ MainProcessError
    \/ ClientNew
    \/ ClientValidate
    \/ ClientExecAgain

Spec == Init /\ [][Next]_vars

(***************************************************************************)
(* Properties                                                              *)
(***************************************************************************)
ProcessName == get_process_name(Unwrap(process))

\* number of children the host created during exec call number k
SpawnsOfCall(k) == Cardinality({i \in 1..Len(spawned) : spawned[i][1] = k})

\* the exec call that just returned ran a child to its end
ChildRan == pc = "returned" /\ SpawnsOfCall(calls) >= 1

ChildOut == Unwrap(child)

\* C1: an exec call on a Process whose executable the search path does not
\* resolve returns BinaryDoesNotExist with exactly that name and creates no
\* child, and the error reads the same as the one validate returns for the
\* same Process.
C1_UnresolvedIsBinaryDoesNotExist ==
    /\ [][(Calling /\ calls' = calls + 1 /\ ProcessName \notin path)
            => /\ pc' = "returned"
               /\ result' = [kind |-> "BinaryDoesNotExist", binary |-> ProcessName]
               /\ spawned' = spawned]_vars
    /\ [](pc = "returned" /\ result.kind = "BinaryDoesNotExist"
            => /\ SpawnsOfCall(calls) = 0
               /\ result.binary = ProcessName
               /\ (validateResult.kind = "BinaryDoesNotExist"
                     => /\ ~Display(result).panic
                        /\ Display(validateResult) = Display(result)))

C1_Witness ==
    /\ pc = "returned"
    /\ result.kind = "BinaryDoesNotExist"
    /\ validateResult.kind = "BinaryDoesNotExist"
    /\ Display(result).lit = "the binary does not exist: \"this-binary-does-not-exist\""
    /\ spawned = <<>>

\* C2: when the child of an exec call exits with status 0, exec returns
\* Success with exactly the bytes the child wrote to its standard output,
\* whatever it wrote to its standard error.
C2_ExitZeroReturnsStdout ==
    (ChildRan /\ ChildOut.code = Some(0))
        => result = [kind |-> "Success", stdout |-> ChildOut.stdout]

C2_Witness ==
    /\ ChildRan
    /\ ChildOut.code = Some(0)
    /\ ChildOut.stdout = <<97>>
    /\ ChildOut.stderr = <<195>>
    /\ result.kind = "Success"

\* C3: when the child of an exec call exits with a nonzero status, exec
\* returns Exec(code, stderr) where code is that status in the 8-bit field,
\* never 0, and stderr is exactly what the child wrote to standard error.
C3_NonzeroExitReturnsExec ==
    (ChildRan /\ ChildOut.code # None /\ ChildOut.code # Some(0))
        => /\ result.kind = "Exec"
           /\ result.code = AsU8(Unwrap(ChildOut.code))
           /\ result.code # 0
           /\ result.stderr = ChildOut.stderr

\* C4: exec returns Interrupted exactly when its child ended without an exit
\* code, whatever the child wrote before it ended.
C4_InterruptedIffNoExitCode ==
    /\ (ChildRan /\ ChildOut.code = None) => result = [kind |-> "Interrupted"]
    /\ (pc = "returned" /\ result.kind = "Interrupted")
          => (ChildRan /\ ChildOut.code = None)

C4_Witness ==
    /\ ChildRan
    /\ ChildOut.code = None
    /\ ChildOut.stdout # <<>>
    /\ ChildOut.stderr # <<>>
    /\ result.kind = "Interrupted"

\* the hpm binary ended after exec returned the failure now in result
EndedOnExecFailure ==
    /\ mode = "main" /\ pc = "exited"
    /\ result.kind \in {"BinaryDoesNotExist", "FailedToExecProcess", "Exec", "Interrupted"}

\* C5: for every failure exec returns, hpm ends with the translator's exit
\* status: 1 for BinaryDoesNotExist and FailedToExecProcess, 130 for
\* Interrupted, and the code of Exec(code, stderr) for every code and every
\* captured stderr.
C5_ExitStatusOfExecFailure ==
    EndedOnExecFailure
        => exitCode = Some(CASE result.kind = "BinaryDoesNotExist" -> 1
                             [] result.kind = "FailedToExecProcess" -> 1
                             [] result.kind = "Interrupted" -> 130
                             [] result.kind = "Exec" -> result.code)

\* the Command the dispatcher is to build for a subcommand
Expected(c) ==
    CASE c = "Kill" -> [program |-> "systemctl", args |-> <<"poweroff">>]
      [] c = "Restart" -> [program |-> "systemctl", args |-> <<"reboot">>]
      [] c = "Logout" -> [program |-> "loginctl", args |-> <<"terminate-user", userEnv>>]

\* Logout was selected, $USER is absent, and the dispatcher has run
LogoutWithoutUser ==
    /\ mode = "main" /\ pc = "exited"
    /\ selected = Some("Logout")
    /\ userEnv = "NotPresent"

\* every Process the dispatcher wrapped and every child hpm had spawned is
\* the command of the selected subcommand
DispatchedAsSelected ==
    mode = "main"
        => /\ (process # None => selected # None /\ Unwrap(process) = Expected(Unwrap(selected)))
           /\ \A i \in 1..Len(spawned) :
                 selected # None /\ spawned[i][2] = Expected(Unwrap(selected))

\* C6 as claimed: Kill, Restart and Logout build systemctl poweroff,
\* systemctl reboot and loginctl terminate-user $USER, and without $USER
\* Logout fails before any command specification is constructed, with no
\* Process and no child.
C6_LogoutFailsBeforeAnyCommand ==
    /\ DispatchedAsSelected
    /\ LogoutWithoutUser => (cmd = None /\ process = None /\ spawned = <<>>)

\* C6 as amended: the same commands; without $USER Logout panics once the
\* Command loginctl terminate-user is built but before a Process wraps it,
\* so no Process exists and no child is spawned.
C6_DispatcherCommands ==
    /\ DispatchedAsSelected
    /\ LogoutWithoutUser
          => /\ cmd = Some([program |-> "loginctl", args |-> <<"terminate-user">>])
             /\ process = None
             /\ spawned = <<>>
             /\ calls = 0
             /\ exitCode = Some(PanicExit)

C6_Witness ==
    /\ LogoutWithoutUser
    /\ cmd # None
    /\ process = None

\* C7 as claimed: every exec call spawns exactly one child.
C7_ExactlyOneChildPerCall ==
    pc = "returned" => SpawnsOfCall(calls) = 1

ChildKinds == {"Success", "Exec", "Interrupted"}

\* C7 as amended: an exec call spawns at most one child: exactly one when
\* validation passed and the spawn succeeded (the call returns Success, Exec
\* or Interrupted), none when it returns BinaryDoesNotExist or
\* FailedToExecProcess; no failure makes exec run the command again.
C7_AtMostOneChildPerCall ==
    /\ \A k \in 1..calls : SpawnsOfCall(k) <= 1
    /\ Len(spawned) <= calls
    /\ pc = "returned" => (SpawnsOfCall(calls) = 1 <=> result.kind \in ChildKinds)

C7_Witness ==
    /\ pc = "returned"
    /\ calls = 2
    /\ result.kind = "Exec"
    /\ SpawnsOfCall(1) = 0
    /\ SpawnsOfCall(2) = 1

\* C8: exec may be called repeatedly on one Process: no call changes the
\* wrapped command (program and arguments), every call that spawns runs that
\* same command afresh, and a successful call followed by a call whose child
\* behaves the same (same exit status, same bytes on both streams) returns the
\* same Success.
C8_ExecIsRepeatable ==
    [][/\ process # None => process' = process
       /\ Len(spawned') > Len(spawned)
             => /\ spawned' = Append(spawned, <<calls, Unwrap(cmd)>>)
                /\ Unwrap(process) = Unwrap(cmd)
       /\ (/\ pc = "validated" /\ pc' = "returned"
           /\ calls >= 2
           /\ result.kind = "Success"
           /\ child' = child
           /\ Len(spawned') > Len(spawned))
             => result' = result]_vars

C8_Witness ==
    /\ pc = "returned"
    /\ calls = 2
    /\ Len(spawned) = 2
    /\ spawned[1][2] = spawned[2][2]
    /\ spawned[1][2] = Unwrap(process)
    /\ result.kind = "Success"
    /\ result.stdout # <<>>

\* C9: exec never reports a missing executable as FailedToExecProcess: a
\* spawn that fails because the executable is not found does not occur once
\* validation has passed, also when the host changes while exec runs.
C9_MissingIsNeverFailedToExec ==
    (pc = "returned" /\ result.kind = "FailedToExecProcess") => result.err # "NotFound"

\* the answer of the interactive prompt, trimmed
TrimmedAnswer == Trim(Unwrap(answer_buf))

\* the texts read as the number k: an optional '+', any number of zeros, k
ReadsAs(t, k) ==
    LET d == IF t # <<>> /\ t[1] = "+" THEN Tail(t) ELSE t
    IN  /\ d # <<>>
        /\ d[Len(d)] = k
        /\ \A i \in 1..(Len(d) - 1) : d[i] = "0"

\* hpm spawns only for a selected command, and without flag and subcommand
\* it ends with status 0 and no child
SpawnsOnlyWhenSelected ==
    mode = "main"
        => /\ (spawned # <<>> \/ process # None) => selected # None
           /\ (pc = "exited" /\ ~args.interactive /\ args.command = None)
                 => (exitCode = Some(0) /\ spawned = <<>> /\ process = None)

\* an answer that selected nothing ends hpm with InvalidUserAnswer
AnswerRejected ==
    /\ selected = None
    /\ spawned = <<>> /\ process = None
    /\ exitCode = Some(1)
    /\ errText = Some(Rendered("hpm: the given command does not exist", <<>>))

\* C10 as claimed: in interactive mode exactly the answers that are 0, 1 or 2
\* once trimmed select Kill, Restart and Logout, every other answer ends hpm
\* with InvalidUserAnswer (status 1), and no child is spawned unless a
\* command was selected.
C10_OnlyTheTextsZeroOneTwo ==
    /\ SpawnsOnlyWhenSelected
    /\ (mode = "main" /\ answer_buf # None /\ pc \in {"selected", "exited"})
          => IF TrimmedAnswer = <<"0">> THEN pc = "selected" /\ selected = Some("Kill")
             ELSE IF TrimmedAnswer = <<"1">> THEN pc = "selected" /\ selected = Some("Restart")
             ELSE IF TrimmedAnswer = <<"2">> THEN pc = "selected" /\ selected = Some("Logout")
             ELSE pc = "exited" /\ AnswerRejected

\* C10 as amended: an answer selects Kill, Restart or Logout exactly when its
\* trimmed text parses as the number 0, 1 or 2 (an optional '+' and leading
\* zeros are accepted, as in "+1" or "02"); every other answer ends hpm with
\* InvalidUserAnswer (status 1); no child is spawned unless a command was
\* selected.
C10_AnswersReadAsZeroOneTwo ==
    /\ SpawnsOnlyWhenSelected
    /\ (mode = "main" /\ answer_buf # None /\ pc \in {"selected", "exited"})
          => IF ReadsAs(TrimmedAnswer, "0") THEN pc = "selected" /\ selected = Some("Kill")
             ELSE IF ReadsAs(TrimmedAnswer, "1") THEN pc = "selected" /\ selected = Some("Restart")
             ELSE IF ReadsAs(TrimmedAnswer, "2") THEN pc = "selected" /\ selected = Some("Logout")
             ELSE pc = "exited" /\ AnswerRejected

C10_Witness ==
    /\ mode = "main" /\ pc = "selected"
    /\ answer_buf = Some(<<" ", "+", "1", "\n">>)
    /\ selected = Some("Restart")

====
